---- MODULE Spec2Model ----
(***************************************************************************)
(* Template scaffolding core of src-tauri/src/templates:                   *)
(*   network.rs  retry_with_backoff, retry_with_condition, RetryConfig     *)
(*   cache.rs    TemplateCache (new, get, store, clear, list_cached)       *)
(*   mod.rs      TemplateProgress                                          *)
(*   core.rs     create_project_from_template, download_springboot         *)
(*                                                                         *)
(* Progress values are f32 in the source; here they are counted in tenths  *)
(* (0.6 is 6, 1.0 is 10).  u64 arithmetic is the wrapping arithmetic of a  *)
(* build without overflow checks (a build with them panics where this one  *)
(* wraps), on words of U64Bits bits.                                       *)
(***************************************************************************)
EXTENDS Integers, Sequences, FiniteSets, TLC

\* ---------------------------------------------------------------- bounds
\* Width of the words that stand for u64 (delays in milliseconds).
U64Bits == 14
\* Largest max_retries a RetryConfig of the retry harness takes.
MaxRetriesBound == 5
\* The small delays 0..MaxSmallDelay are all tried, next to the large ones.
MaxSmallDelay == 3
\* Invocations of create_project_from_template in one behaviour.
MaxInvocations == 2

\* ------------------------------------------------------------- variables
VARIABLES
    \* retry_with_backoff / retry_with_condition (network.rs)
    r_pc,          \* "idle" | "loop" | "done"
    r_fn,          \* "backoff" | "condition"
    r_caller,      \* "harness" | "download_springboot"
    r_cfg,         \* the RetryConfig of the call
    r_attempt,     \* loop variable `attempt`
    r_delay,       \* local `delay`
    r_trace,       \* what the call did so far: calls, should_retry, sleeps
    r_result,      \* the returned Result
    \* create_project_from_template (core.rs)
    pc,            \* position in the handler
    template_id,
    project_name,
    events,        \* the template-progress events emitted by this invocation
    result,        \* the returned Result<String, String>
    cache,         \* Option<TemplateCache>: the handle of this invocation
    cached_file,   \* Option<PathBuf> returned by cache.get
    lookup,        \* how the cache lookup of this invocation ended
    store_calls,   \* TemplateCache::store calls of this invocation
    extract_runs,  \* extraction subprocesses run by this invocation
    invocations,   \* invocations started so far
    target_os,     \* cfg(target_os): "windows" | "other"
    spawned,       \* the Command::output() calls of the generator and install
                   \* steps of this invocation, in order, with their outcomes
    cache_ops,     \* the TemplateCache methods this invocation called
    fs_called,     \* this invocation called create_dir_all, write or copy
    \* filesystem
    zip,           \* project -> content of <location>/<project>.zip, or NoFile
    full_path_exists,   \* project -> <location>/<project> exists
    cache_dir_exists,   \* <app_data_dir>/template_cache is a directory
    metadata_json,      \* template_cache/metadata.json
    cache_files,        \* files of template_cache: name -> content or NoFile
    \* a client of TemplateCache (cache.rs) working on the handle `cache`
    last_call,     \* the TemplateCache call made last, with what it returned
    all_succeeded, \* no store or clear of the handle failed, and nothing but
                   \* the handle changed the cache directory since it was made
    \* two invocations of the springboot arm running at the same time
    tasks,         \* task -> its position, project and TemplateCache map
    \* one operation handed to both retry functions
    pair           \* the config and the state of each of the two loops

retry_vars == <<r_pc, r_fn, r_caller, r_cfg, r_attempt, r_delay, r_trace, r_result>>
call_vars == <<pc, template_id, project_name, events, result, cache, cached_file,
               lookup, store_calls, extract_runs, invocations, target_os,
               spawned, cache_ops, fs_called>>
fs_vars == <<zip, full_path_exists, cache_dir_exists, metadata_json, cache_files>>
op_vars == <<last_call, all_succeeded, tasks, pair>>
vars == <<retry_vars, call_vars, fs_vars, op_vars>>

Min(a, b) == IF a <= b THEN a ELSE b

RECURSIVE Pow2(_)
Pow2(n) == IF n = 0 THEN 1 ELSE 2 * Pow2(n - 1)

\* ==================================================================
\* network.rs
\* ==================================================================

\* u64: the values a delay can take.
U64Modulus == Pow2(U64Bits)

\* The delays the harness tries: every small one, the defaults, and the
\* largest words (where doubling wraps).
DelayValues ==
    (0 .. MaxSmallDelay) \cup {1000, 8000, U64Modulus \div 2, U64Modulus - 1}

RetryConfig ==
    [max_retries : 0 .. MaxRetriesBound,
     initial_delay_ms : DelayValues,
     max_delay_ms : DelayValues]

\* impl Default for RetryConfig
DefaultRetryConfig ==
    [max_retries |-> 3, initial_delay_ms |-> 1000, max_delay_ms |-> 8000]

\* What one call of the operation closure returns: Ok(T) or Err(E).
Values == {"v1", "v2"}
Errors == {"e1", "e2"}
OpResults ==
    [ok : {TRUE}, val : Values] \cup [ok : {FALSE}, val : Errors]

NoResult == [kind |-> "none", val |-> "none"]
OkResult(v) == [kind |-> "Ok", val |-> v]
ErrResult(e) == [kind |-> "Err", val |-> e]

\* delay * 2 on u64
WrappingDouble(delay) == (delay * 2) % U64Modulus

\* delay = (delay * 2).min(config.max_delay_ms)
NextDelay(delay, cfg) == Min(WrappingDouble(delay), cfg.max_delay_ms)

\* (a loop that gives up one attempt early)
IsFinalAttemptOneEarly(attempt, cfg) == attempt + 1 >= cfg.max_retries

\* the guard `attempt == config.max_retries`
IsFinalAttempt(attempt, cfg) == attempt = cfg.max_retries

\* (a guard that forgets the predicate)
StopsRetryingUnconditioned(attempt, cfg, answer) == IsFinalAttempt(attempt, cfg)

\* the guard `attempt == config.max_retries || !should_retry(&e)`
StopsRetrying(attempt, cfg, answer) == IsFinalAttempt(attempt, cfg) \/ ~answer

Ev(kind, arg) == [ev |-> kind, arg |-> arg]

\* let mut delay = config.initial_delay_ms; for attempt in 0..=max_retries
RetryEnter(fn, caller, cfg) ==
    /\ r_pc' = "loop"
    /\ r_fn' = fn
    /\ r_caller' = caller
    /\ r_cfg' = cfg
    /\ r_attempt' = 0
    /\ r_delay' = cfg.initial_delay_ms
    /\ r_trace' = <<>>
    /\ r_result' = NoResult

\* The side effect of the operation closure on the filesystem: the curl of
\* download_springboot writes the archive; the closures of the harness
\* touch nothing.
ArchiveContent == "archive"
NoFile == "none"
ClosureEffect(out) ==
    IF r_caller = "download_springboot"
    THEN IF out.ok
         THEN zip' = [zip EXCEPT ![project_name] = ArchiveContent]
         ELSE \E left \in {zip[project_name], "partial"} :
                zip' = [zip EXCEPT ![project_name] = left]
    ELSE zip' = zip

\* for attempt in 0..=config.max_retries: the range is exhausted, the loop
\* ends and unreachable!() panics.
RangeExhausted(attempt, cfg) == attempt > cfg.max_retries

RetryUnreachable ==
    /\ r_pc' = "done"
    /\ r_result' = [kind |-> "panic", val |-> "unreachable"]
    /\ UNCHANGED <<r_attempt, r_delay, r_trace, zip>>

\* (a loop whose Ok arm does not return: it goes on to the next attempt)
BackoffAttemptNoEarlyExit ==
    /\ r_pc = "loop"
    /\ r_fn = "backoff"
    /\ IF RangeExhausted(r_attempt, r_cfg)
       THEN RetryUnreachable
       ELSE \E out \in OpResults :
         LET called == Append(r_trace, Ev("call", out)) IN
         /\ ClosureEffect(out)
         /\ IF out.ok /\ IsFinalAttempt(r_attempt, r_cfg)
            THEN /\ r_pc' = "done"
                 /\ r_result' = OkResult(out.val)
                 /\ r_trace' = called
                 /\ UNCHANGED <<r_attempt, r_delay>>
            ELSE IF ~out.ok /\ IsFinalAttempt(r_attempt, r_cfg)
            THEN /\ r_pc' = "done"
                 /\ r_result' = ErrResult(out.val)
                 /\ r_trace' = called
                 /\ UNCHANGED <<r_attempt, r_delay>>
            ELSE /\ r_trace' = Append(called, Ev("sleep", r_delay))
                 /\ r_delay' = NextDelay(r_delay, r_cfg)
                 /\ r_attempt' = r_attempt + 1
                 /\ UNCHANGED <<r_pc, r_result>>
    /\ UNCHANGED <<r_fn, r_caller, r_cfg>>
    /\ UNCHANGED <<call_vars, op_vars>>
    /\ UNCHANGED <<full_path_exists, cache_dir_exists, metadata_json, cache_files>>

\* (a loop that sleeps after every failure, the last one included, and
\* only then gives up)
BackoffAttemptSleepsLast ==
    /\ r_pc = "loop"
    /\ r_fn = "backoff"
    /\ IF RangeExhausted(r_attempt, r_cfg)
       THEN RetryUnreachable
       ELSE \E out \in OpResults :
         LET called == Append(r_trace, Ev("call", out)) IN
         /\ ClosureEffect(out)
         /\ IF out.ok
            THEN /\ r_pc' = "done"
                 /\ r_result' = OkResult(out.val)
                 /\ r_trace' = called
                 /\ UNCHANGED <<r_attempt, r_delay>>
            ELSE IF IsFinalAttempt(r_attempt, r_cfg)
            THEN /\ r_pc' = "done"
                 /\ r_result' = ErrResult(out.val)
                 /\ r_trace' = Append(called, Ev("sleep", r_delay))
                 /\ UNCHANGED <<r_attempt, r_delay>>
            ELSE /\ r_trace' = Append(called, Ev("sleep", r_delay))
                 /\ r_delay' = NextDelay(r_delay, r_cfg)
                 /\ r_attempt' = r_attempt + 1
                 /\ UNCHANGED <<r_pc, r_result>>
    /\ UNCHANGED <<r_fn, r_caller, r_cfg>>
    /\ UNCHANGED <<call_vars, op_vars>>
    /\ UNCHANGED <<full_path_exists, cache_dir_exists, metadata_json, cache_files>>

\* One iteration of the loop of retry_with_backoff.
BackoffAttempt ==
    /\ r_pc = "loop"
    /\ r_fn = "backoff"
    /\ IF RangeExhausted(r_attempt, r_cfg)
       THEN RetryUnreachable
       ELSE \E out \in OpResults :
         LET called == Append(r_trace, Ev("call", out)) IN
         /\ ClosureEffect(out)
         /\ IF out.ok
            THEN /\ r_pc' = "done"
                 /\ r_result' = OkResult(out.val)
                 /\ r_trace' = called
                 /\ UNCHANGED <<r_attempt, r_delay>>
            ELSE IF IsFinalAttempt(r_attempt, r_cfg)
            THEN /\ r_pc' = "done"
                 /\ r_result' = ErrResult(out.val)
                 /\ r_trace' = called
                 /\ UNCHANGED <<r_attempt, r_delay>>
            ELSE /\ r_trace' = Append(called, Ev("sleep", r_delay))
                 /\ r_delay' = NextDelay(r_delay, r_cfg)
                 /\ r_attempt' = r_attempt + 1
                 /\ UNCHANGED <<r_pc, r_result>>
    /\ UNCHANGED <<r_fn, r_caller, r_cfg>>
    /\ UNCHANGED <<call_vars, op_vars>>
    /\ UNCHANGED <<full_path_exists, cache_dir_exists, metadata_json, cache_files>>

\* (a guard with its operands swapped: the predicate is asked about
\* every failure, the last one included)
ConditionAttemptAsksFirst ==
    /\ r_pc = "loop"
    /\ r_fn = "condition"
    /\ IF RangeExhausted(r_attempt, r_cfg)
       THEN RetryUnreachable
       ELSE \E out \in OpResults, answer \in BOOLEAN :
         LET called == Append(r_trace, Ev("call", out))
             asked == Append(called, Ev("should_retry", answer))
         IN
         /\ ClosureEffect(out)
         /\ IF out.ok
            THEN /\ r_pc' = "done"
                 /\ r_result' = OkResult(out.val)
                 /\ r_trace' = called
                 /\ UNCHANGED <<r_attempt, r_delay>>
            ELSE IF StopsRetrying(r_attempt, r_cfg, answer)
            THEN /\ r_pc' = "done"
                 /\ r_result' = ErrResult(out.val)
                 /\ r_trace' = asked
                 /\ UNCHANGED <<r_attempt, r_delay>>
            ELSE /\ r_trace' = Append(asked, Ev("sleep", r_delay))
                 /\ r_delay' = NextDelay(r_delay, r_cfg)
                 /\ r_attempt' = r_attempt + 1
                 /\ UNCHANGED <<r_pc, r_result>>
    /\ UNCHANGED <<r_fn, r_caller, r_cfg>>
    /\ UNCHANGED <<call_vars, op_vars>>
    /\ UNCHANGED <<full_path_exists, cache_dir_exists, metadata_json, cache_files>>

\* One iteration of the loop of retry_with_condition.  should_retry is an
\* FnMut: what it answers is the caller's business, any answer can come.
ConditionAttempt ==
    /\ r_pc = "loop"
    /\ r_fn = "condition"
    /\ IF RangeExhausted(r_attempt, r_cfg)
       THEN RetryUnreachable
       ELSE \E out \in OpResults, answer \in BOOLEAN :
         LET called == Append(r_trace, Ev("call", out))
             asked == Append(called, Ev("should_retry", answer))
         IN
         /\ ClosureEffect(out)
         /\ IF out.ok
            THEN /\ r_pc' = "done"
                 /\ r_result' = OkResult(out.val)
                 /\ r_trace' = called
                 /\ UNCHANGED <<r_attempt, r_delay>>
            ELSE IF StopsRetrying(r_attempt, r_cfg, answer)
            THEN \* `||` short-circuits: on the final attempt should_retry
                 \* is not called
                 /\ r_pc' = "done"
                 /\ r_result' = ErrResult(out.val)
                 /\ r_trace' = IF IsFinalAttempt(r_attempt, r_cfg)
                               THEN called ELSE asked
                 /\ UNCHANGED <<r_attempt, r_delay>>
            ELSE /\ r_trace' = Append(asked, Ev("sleep", r_delay))
                 /\ r_delay' = NextDelay(r_delay, r_cfg)
                 /\ r_attempt' = r_attempt + 1
                 /\ UNCHANGED <<r_pc, r_result>>
    /\ UNCHANGED <<r_fn, r_caller, r_cfg>>
    /\ UNCHANGED <<call_vars, op_vars>>
    /\ UNCHANGED <<full_path_exists, cache_dir_exists, metadata_json, cache_files>>

\* ------------------------------------------------------------------
\* The two functions on one operation: the loops as functions of their
\* local state (attempt, delay), of the config and of what the call of
\* the operation returns.
\* ------------------------------------------------------------------
\* let mut delay = config.initial_delay_ms; attempt = 0
LoopState(cfg) ==
    [pc |-> "loop", attempt |-> 0, delay |-> cfg.initial_delay_ms,
     trace |-> <<>>, result |-> NoResult]

\* one iteration of retry_with_backoff
BackoffStep(st, cfg, out) ==
    LET called == Append(st.trace, Ev("call", out)) IN
    IF out.ok
    THEN [st EXCEPT !.pc = "done", !.result = OkResult(out.val),
                    !.trace = called]
    ELSE IF IsFinalAttempt(st.attempt, cfg)
    THEN [st EXCEPT !.pc = "done", !.result = ErrResult(out.val),
                    !.trace = called]
    ELSE [st EXCEPT !.trace = Append(called, Ev("sleep", st.delay)),
                    !.delay = NextDelay(st.delay, cfg),
                    !.attempt = @ + 1]

\* (the loop of retry_with_condition sleeping for the same delay every
\* time)
ConditionStepFlatDelay(st, cfg, out, answer) ==
    LET called == Append(st.trace, Ev("call", out))
        asked == Append(called, Ev("should_retry", answer))
    IN
    IF out.ok
    THEN [st EXCEPT !.pc = "done", !.result = OkResult(out.val),
                    !.trace = called]
    ELSE IF StopsRetrying(st.attempt, cfg, answer)
    THEN [st EXCEPT !.pc = "done", !.result = ErrResult(out.val),
                    !.trace = IF IsFinalAttempt(st.attempt, cfg)
                              THEN called ELSE asked]
    ELSE [st EXCEPT !.trace = Append(asked, Ev("sleep", st.delay)),
                    !.attempt = @ + 1]

\* one iteration of retry_with_condition; answer is what should_retry
\* returns when it is called
ConditionStep(st, cfg, out, answer) ==
    LET called == Append(st.trace, Ev("call", out))
        asked == Append(called, Ev("should_retry", answer))
    IN
    IF out.ok
    THEN [st EXCEPT !.pc = "done", !.result = OkResult(out.val),
                    !.trace = called]
    ELSE IF StopsRetrying(st.attempt, cfg, answer)
    THEN [st EXCEPT !.pc = "done", !.result = ErrResult(out.val),
                    !.trace = IF IsFinalAttempt(st.attempt, cfg)
                              THEN called ELSE asked]
    ELSE [st EXCEPT !.trace = Append(asked, Ev("sleep", st.delay)),
                    !.delay = NextDelay(st.delay, cfg),
                    !.attempt = @ + 1]

\* the predicate |_| true
AlwaysTrue(e) == TRUE

NoPair == [pc |-> "none"]

\* retry_with_backoff(op, cfg) and retry_with_condition(op, |_| true, cfg)
\* are entered with the same config.
PairEnter ==
    /\ r_pc = "idle" /\ pc = "idle"
    /\ pair = NoPair
    /\ \E cfg \in RetryConfig :
         pair' = [pc |-> "run", cfg |-> cfg,
                  backoff |-> LoopState(cfg), condition |-> LoopState(cfg)]
    /\ UNCHANGED <<retry_vars, call_vars, fs_vars>>
    /\ UNCHANGED <<last_call, all_succeeded, tasks>>

\* The n-th call of the operation returns the same to both; a loop that
\* has returned makes no call.
PairAttempt ==
    /\ pair.pc = "run"
    /\ pair.backoff.pc = "loop" \/ pair.condition.pc = "loop"
    /\ \E out \in OpResults :
         pair' = [pair EXCEPT
                    !.backoff =
                        IF @.pc = "loop" /\ ~RangeExhausted(@.attempt, pair.cfg)
                        THEN BackoffStep(@, pair.cfg, out) ELSE @,
                    !.condition =
                        IF @.pc = "loop" /\ ~RangeExhausted(@.attempt, pair.cfg)
                        THEN ConditionStep(@, pair.cfg, out, AlwaysTrue(out.val))
                        ELSE @]
    /\ UNCHANGED <<retry_vars, call_vars, fs_vars>>
    /\ UNCHANGED <<last_call, all_succeeded, tasks>>

\* The harness calls retry_with_backoff(operation, config).
CallRetryWithBackoff ==
    /\ r_pc = "idle"
    /\ pc = "idle"
    /\ \E cfg \in RetryConfig : RetryEnter("backoff", "harness", cfg)
    /\ UNCHANGED <<call_vars, fs_vars, op_vars>>

\* The harness calls retry_with_condition(operation, should_retry, config).
CallRetryWithCondition ==
    /\ r_pc = "idle"
    /\ pc = "idle"
    /\ \E cfg \in RetryConfig : RetryEnter("condition", "harness", cfg)
    /\ UNCHANGED <<call_vars, fs_vars, op_vars>>

\* ==================================================================
\* mod.rs: TemplateProgress
\* ==================================================================

\* progress.clamp(0.0, 1.0), in tenths
Clamp(progress) ==
    IF progress < 0 THEN 0 ELSE IF progress > 10 THEN 10 ELSE progress

\* TemplateProgress::new
NewProgress(stage, progress, message) ==
    [stage |-> stage, progress |-> Clamp(progress), message |-> message]

Initializing(message) == NewProgress("Initializing", 0, message)
Downloading(progress, message) == NewProgress("Downloading", progress, message)
Extracting(progress, message) == NewProgress("Extracting", progress, message)
Installing(progress, message) == NewProgress("Installing", progress, message)
Complete(message) == NewProgress("Complete", 10, message)
Error(message) == NewProgress("Error", 0, message)

\* app.emit("template-progress", ...): one or more events, in order
Emit(evs) == events' = events \o evs

\* ==================================================================
\* cache.rs: TemplateCache
\* ==================================================================

ProjectNames == {"p1", "p2"}

\* format!("{}.zip", project_name)
ZipName(project) == project \o ".zip"

Names == {ZipName(p) : p \in ProjectNames}

\* The cache version of the springboot arm: "v1-" and the first 16
\* characters of the base64 SHA-256 of the URL, which the project name
\* determines; distinct project names give distinct URLs.
CacheVersion(project) == "v1-" \o project

\* no TemplateCache call was made yet
NoCall == [op |-> "none"]

\* no metadata.json, and a cache directory with no file
NoMetadata == [state |-> "absent", templates |-> {}]
NoFiles == [n \in Names |-> NoFile]

NoHandle == [some |-> FALSE, templates |-> {}]
Handle(templates) == [some |-> TRUE, templates |-> templates]
NoPath == [some |-> FALSE, name |-> "none"]
SomePath(name) == [some |-> TRUE, name |-> name]

\* std::fs::metadata(&file_path).map(|m| m.len()).unwrap_or(0), as far as
\* the length of its decimal form goes: a missing file has size 0, a file
\* cut short is taken to be an order of magnitude smaller than a whole one.
SizeBytes(content) ==
    IF content \in {NoFile, "partial"} THEN "short" ELSE "long"

\* CachedTemplate, as far as the cache reads it back or its length in
\* metadata.json goes: file_path is cache_dir.join(file_name), named here
\* by its file name.
CachedTemplate(id, version, name, size_bytes) ==
    [id |-> id, version |-> version, file_path |-> name,
     size_bytes |-> size_bytes]

\* TemplateCache::new.  create_ok: create_dir_all succeeds; read_ok:
\* read_to_string succeeds.  Unparsable metadata gives the empty map.
CacheNew(create_ok, read_ok) ==
    IF ~cache_dir_exists /\ ~create_ok
    THEN [ok |-> FALSE, handle |-> NoHandle, dir |-> FALSE]
    ELSE IF cache_dir_exists /\ metadata_json.state # "absent"
    THEN IF ~read_ok
         THEN [ok |-> FALSE, handle |-> NoHandle, dir |-> TRUE]
         ELSE [ok |-> TRUE,
               handle |-> Handle(IF metadata_json.state = "valid"
                                 THEN metadata_json.templates ELSE {}),
               dir |-> TRUE]
    ELSE [ok |-> TRUE, handle |-> Handle({}), dir |-> TRUE]

\* (an entry of the id answers for every version)
VersionIgnored(t, version) == TRUE

\* the filter of TemplateCache::get: t.version == version
VersionMatches(t, version) == t.version = version

\* TemplateCache::get
CacheGet(handle, id, version) ==
    LET found == {t \in handle.templates : t.id = id /\ VersionMatches(t, version)}
    IN IF found = {} THEN NoPath
       ELSE SomePath((CHOOSE t \in found : TRUE).file_path)

\* (the map keyed by id and version: an entry of another version stays)
InsertTemplateByKey(templates, id, version, name, size_bytes) ==
    {t \in templates : t.id # id \/ t.version # version}
        \cup {CachedTemplate(id, version, name, size_bytes)}

\* self.metadata.templates.insert(template_id, CachedTemplate {..})
InsertTemplate(templates, id, version, name, size_bytes) ==
    {t \in templates : t.id # id}
        \cup {CachedTemplate(id, version, name, size_bytes)}

\* (save_metadata answering Ok without writing the file)
SaveMetadataUnwritten(templates, written) ==
    [ok |-> TRUE, metadata_json |-> metadata_json]

\* save_metadata: std::fs::write creates or truncates metadata.json, then
\* writes.  written: "ok", "untouched" (the file could not be opened) or
\* "truncated" (the write failed after the file was truncated).
WriteOutcomes == {"ok", "untouched", "truncated"}
SaveMetadata(templates, written) ==
    IF ~cache_dir_exists \/ written = "untouched"
    THEN [ok |-> FALSE, metadata_json |-> metadata_json]
    ELSE IF written = "truncated"
    THEN [ok |-> FALSE, metadata_json |-> [state |-> "corrupt", templates |-> {}]]
    ELSE [ok |-> TRUE, metadata_json |-> [state |-> "valid", templates |-> templates]]

\* TemplateCache::store of a file outside the cache directory, of content
\* `content` (NoFile when the source does not exist).
CacheStore(handle, id, version, name, content, copy_ok, written) ==
    IF content = NoFile \/ ~cache_dir_exists \/ ~copy_ok
    THEN [ok |-> FALSE, handle |-> handle,
          cache_files |-> cache_files, metadata_json |-> metadata_json]
    ELSE LET inserted == InsertTemplate(handle.templates, id, version, name,
                                        SizeBytes(content))
             saved == SaveMetadata(inserted, written)
         IN [ok |-> saved.ok, handle |-> Handle(inserted),
             cache_files |-> [cache_files EXCEPT ![name] = content],
             metadata_json |-> saved.metadata_json]

\* TemplateCache::store of a path that is the cached path itself
\* (file_path == cached_path): nothing is copied, the entry is inserted
\* with the size of whatever is there, 0 when nothing is.
CacheStoreInPlace(handle, id, version, name, written) ==
    LET inserted == InsertTemplate(handle.templates, id, version, name,
                                   SizeBytes(cache_files[name]))
        saved == SaveMetadata(inserted, written)
    IN [ok |-> saved.ok, handle |-> Handle(inserted),
        cache_files |-> cache_files,
        metadata_json |-> saved.metadata_json]

\* TemplateCache::store of a path without a file name (one that ends in
\* `..`, or the root): Err("Invalid file path") before anything is done.
CacheStoreNoFileName(handle) ==
    [ok |-> FALSE, handle |-> handle,
     cache_files |-> cache_files, metadata_json |-> metadata_json]

\* TemplateCache::clear.  remove_ok: remove_dir_all succeeds (a failed
\* removal is taken to have removed nothing); create_ok: create_dir_all
\* succeeds.  Both run only when the cache directory exists.
CacheClear(handle, remove_ok, create_ok, written) ==
    IF cache_dir_exists /\ ~remove_ok
    THEN [ok |-> FALSE, handle |-> handle, dir |-> TRUE,
          cache_files |-> cache_files, metadata_json |-> metadata_json]
    ELSE IF cache_dir_exists /\ ~create_ok
    THEN [ok |-> FALSE, handle |-> handle, dir |-> FALSE,
          cache_files |-> NoFiles, metadata_json |-> NoMetadata]
    ELSE LET saved == SaveMetadata({}, written) IN
         [ok |-> saved.ok, handle |-> Handle({}), dir |-> cache_dir_exists,
          cache_files |-> NoFiles,
          metadata_json |-> IF ~saved.ok /\ written = "untouched"
                            THEN NoMetadata ELSE saved.metadata_json]

\* TemplateCache::list_cached: the values of the map
ListCached(handle) == handle.templates

\* ------------------------------------------------------------------
\* A client of TemplateCache: it makes a handle on the one base
\* directory, calls store and clear on it with any arguments, and drops
\* it; the process can die inside store, and the cache directory can be
\* removed from outside.  Every step records itself in last_call.
\* ------------------------------------------------------------------
CacheIds == {"t", "u"}
Versions == {"v1", "v2"}
\* The files the client stores: they lie outside the cache directory, two
\* of them in different directories under one file name.
SourceFiles ==
    {[name |-> ZipName("p1"), content |-> ArchiveContent],
     [name |-> ZipName("p1"), content |-> "archive-2"],
     [name |-> ZipName("p2"), content |-> ArchiveContent]}
\* what can go wrong inside one call
StoreFaults == {"none", "copy", "untouched", "truncated"}
ClearFaults == {"none", "remove_dir_all", "create_dir_all", "untouched", "truncated"}
WrittenOf(fault) == IF fault \in {"untouched", "truncated"} THEN fault ELSE "ok"
NoClient == pc = "idle" /\ r_pc = "idle"

\* TemplateCache::new(app_data_dir)
CacheOpen ==
    /\ NoClient
    /\ ~cache.some
    /\ \E create_ok \in BOOLEAN, read_ok \in BOOLEAN :
         LET made == CacheNew(create_ok, read_ok) IN
         /\ cache' = made.handle
         /\ cache_dir_exists' = made.dir
         /\ all_succeeded' = made.ok
         /\ last_call' = [op |-> "new", ok |-> made.ok,
                          create_ok |-> create_ok, read_ok |-> read_ok]
    /\ UNCHANGED <<retry_vars, zip, full_path_exists, metadata_json, cache_files>>
    /\ UNCHANGED <<pc, template_id, project_name, events, result, cached_file,
                   lookup, store_calls, extract_runs, invocations, target_os,
                   spawned, cache_ops, fs_called>>
    /\ UNCHANGED <<tasks, pair>>

\* cache.store(id, version, file_path), file_path one of the source
\* files.  before is the map as the call found it, overwrote what the
\* cached path held before the copy.
CacheStoreCall ==
    /\ NoClient
    /\ cache.some
    /\ \E id \in CacheIds, version \in Versions, file \in SourceFiles,
          fault \in StoreFaults :
         LET name == file.name
             content == file.content
             stored == CacheStore(cache, id, version, name, content,
                                  fault # "copy", WrittenOf(fault))
         IN /\ cache' = stored.handle
            /\ cache_files' = stored.cache_files
            /\ metadata_json' = stored.metadata_json
            /\ all_succeeded' = (all_succeeded /\ stored.ok)
            /\ last_call' = [op |-> "store", ok |-> stored.ok, id |-> id,
                             version |-> version, name |-> name,
                             content |-> content, fault |-> fault,
                             before |-> cache.templates,
                             overwrote |-> cache_files[name]]
    /\ UNCHANGED <<retry_vars, zip, full_path_exists, cache_dir_exists>>
    /\ UNCHANGED <<pc, template_id, project_name, events, result, cached_file,
                   lookup, store_calls, extract_runs, invocations, target_os,
                   spawned, cache_ops, fs_called>>
    /\ UNCHANGED <<tasks, pair>>

\* cache.store(id, version, path) with a path inside the cache directory,
\* or with a path that has no file name.
OddSources == {"in_place", "no_file_name"}
\* the key such a store is made under
OddIds == {"t"}
OddVersions == {"v1"}
InPlaceFaults == {"none", "untouched", "truncated"}
CacheStoreOddCall ==
    /\ NoClient
    /\ cache.some
    /\ \E id \in OddIds, version \in OddVersions, name \in Names,
          source \in OddSources, fault \in InPlaceFaults :
         LET stored == IF source = "in_place"
                       THEN CacheStoreInPlace(cache, id, version, name,
                                              WrittenOf(fault))
                       ELSE CacheStoreNoFileName(cache)
         IN /\ source = "no_file_name" => fault = "none"
            /\ cache' = stored.handle
            /\ cache_files' = stored.cache_files
            /\ metadata_json' = stored.metadata_json
            /\ all_succeeded' = (all_succeeded /\ stored.ok)
            /\ last_call' = [op |-> "store", ok |-> stored.ok, id |-> id,
                             version |-> version, name |-> name,
                             content |-> cache_files[name],
                             fault |-> IF source = "in_place" THEN fault
                                       ELSE source,
                             before |-> cache.templates,
                             overwrote |-> cache_files[name]]
    /\ UNCHANGED <<retry_vars, zip, full_path_exists, cache_dir_exists>>
    /\ UNCHANGED <<pc, template_id, project_name, events, result, cached_file,
                   lookup, store_calls, extract_runs, invocations, target_os,
                   spawned, cache_ops, fs_called>>
    /\ UNCHANGED <<tasks, pair>>

\* cache.clear()
CacheClearCall ==
    /\ NoClient
    /\ cache.some
    /\ \E fault \in ClearFaults :
         LET cleared == CacheClear(cache, fault # "remove_dir_all",
                                   fault # "create_dir_all", WrittenOf(fault))
         IN /\ cache' = cleared.handle
            /\ cache_dir_exists' = cleared.dir
            /\ cache_files' = cleared.cache_files
            /\ metadata_json' = cleared.metadata_json
            /\ all_succeeded' = (all_succeeded /\ cleared.ok)
            /\ last_call' = [op |-> "clear", ok |-> cleared.ok, fault |-> fault,
                             dir_before |-> cache_dir_exists,
                             had |-> cache.templates]
    /\ UNCHANGED <<retry_vars, zip, full_path_exists>>
    /\ UNCHANGED <<pc, template_id, project_name, events, result, cached_file,
                   lookup, store_calls, extract_runs, invocations, target_os,
                   spawned, cache_ops, fs_called>>
    /\ UNCHANGED <<tasks, pair>>

\* The process dies inside store, after std::fs::copy returned and
\* before save_metadata wrote: the copy is on disk, the handle is gone.
StoreInterrupted ==
    /\ NoClient
    /\ cache.some
    /\ cache_dir_exists
    /\ \E id \in CacheIds, version \in Versions, file \in SourceFiles :
         /\ cache_files' = [cache_files EXCEPT ![file.name] = file.content]
         /\ last_call' = [op |-> "store_interrupted", id |-> id,
                          version |-> version, name |-> file.name,
                          content |-> file.content,
                          overwrote |-> cache_files[file.name]]
    /\ cache' = NoHandle
    /\ all_succeeded' = FALSE
    /\ UNCHANGED <<retry_vars, zip, full_path_exists, cache_dir_exists,
                   metadata_json>>
    /\ UNCHANGED <<pc, template_id, project_name, events, result, cached_file,
                   lookup, store_calls, extract_runs, invocations, target_os,
                   spawned, cache_ops, fs_called>>
    /\ UNCHANGED <<tasks, pair>>

\* The handle goes out of scope.
CacheDrop ==
    /\ NoClient
    /\ cache.some
    /\ cache' = NoHandle
    /\ all_succeeded' = FALSE
    /\ last_call' = [op |-> "drop"]
    /\ UNCHANGED <<retry_vars, fs_vars>>
    /\ UNCHANGED <<pc, template_id, project_name, events, result, cached_file,
                   lookup, store_calls, extract_runs, invocations, target_os,
                   spawned, cache_ops, fs_called>>
    /\ UNCHANGED <<tasks, pair>>

\* The cache directory is removed from outside the program, with all it
\* holds.
ExternalRemoveCacheDir ==
    /\ NoClient
    /\ cache_dir_exists
    /\ cache_dir_exists' = FALSE
    /\ cache_files' = NoFiles
    /\ metadata_json' = NoMetadata
    /\ all_succeeded' = FALSE
    /\ last_call' = [op |-> "external"]
    /\ UNCHANGED <<retry_vars, zip, full_path_exists>>
    /\ UNCHANGED <<pc, template_id, project_name, events, result, cache,
                   cached_file, lookup, store_calls, extract_runs, invocations,
                   target_os, spawned, cache_ops, fs_called>>
    /\ UNCHANGED <<tasks, pair>>

\* The cache directory is modified from outside the program: a cached
\* file is removed while its metadata entry stays.
ExternalRemoveCachedFile ==
    /\ pc \in {"idle", "returned"}
    /\ r_pc = "idle"
    /\ \E n \in Names :
         /\ cache_files[n] # NoFile
         /\ cache_files' = [cache_files EXCEPT ![n] = NoFile]
    /\ UNCHANGED <<retry_vars, call_vars, op_vars>>
    /\ UNCHANGED <<zip, full_path_exists, cache_dir_exists, metadata_json>>

\* ==================================================================
\* core.rs: create_project_from_template
\* ==================================================================

\* (the react-vite arm taken as a catch-all, for ids no arm names too)
InlineTemplatesCatchAll ==
    {"react-vite", "node-express", "fastapi", "no-such-template"}

InlineTemplates == {"react-vite", "node-express", "fastapi"}
ToolTemplates == {"react-nextjs", "vue-vite", "angular", "tauri-react"}
KnownTemplates ==
    InlineTemplates \cup ToolTemplates \cup {"springboot", "django", "rust-actix"}
\* a template id no arm of the match names
UnknownTemplate == "no-such-template"
TemplateIds == KnownTemplates \cup {UnknownTemplate}

\* the message of the Downloading event of a generator arm
ToolMessage(tid) ==
    CASE tid = "react-nextjs" -> "Running create-next-app..."
      [] tid = "vue-vite" -> "Creating Vue project..."
      [] tid = "angular" -> "Creating Angular project..."
      [] OTHER -> "Creating Tauri project..."

\* the message of the Installing event of an inline arm
InstallMessage(tid) ==
    IF tid = "fastapi" THEN "Setting up virtual environment..."
    ELSE "Installing dependencies..."

\* return Err(..), also through `?`
ReturnErr(message) ==
    /\ result' = ErrResult(message)
    /\ pc' = "returned"

\* Entry: the initial progress event, full_path and full_path.to_str().
\* The handler starts with no retry call of its own in progress.
Invoke ==
    /\ pc \in {"idle", "returned"}
    /\ r_pc = "idle"
    /\ invocations < MaxInvocations
    /\ \E tid \in TemplateIds, name \in ProjectNames, utf8 \in BOOLEAN :
         /\ template_id' = tid
         /\ project_name' = name
         /\ events' = <<Initializing("Preparing project...")>>
         /\ IF utf8
            THEN /\ pc' = "match"
                 /\ result' = NoResult
            ELSE ReturnErr("Invalid path")
    /\ invocations' = invocations + 1
    /\ cache' = NoHandle
    /\ cached_file' = NoPath
    /\ lookup' = "none"
    /\ store_calls' = 0
    /\ extract_runs' = 0
    /\ spawned' = <<>>
    /\ cache_ops' = {}
    /\ fs_called' = FALSE
    /\ r_pc' = "idle"
    /\ r_trace' = <<>>
    /\ r_result' = NoResult
    /\ UNCHANGED <<r_fn, r_caller, r_cfg, r_attempt, r_delay, target_os, fs_vars, op_vars>>

\* What running a subprocess with .output() gives.
ProcessOutcomes == {"spawn_error", "nonzero", "success"}

\* one Command::new(..)...output() call and what it gave
Ran(program, outcome) == [program |-> program, outcome |-> outcome]

\* The install commands at the end of an inline arm, their results dropped
\* by `let _ =`: npm install, or python -m venv and then pip install.
InstallRuns(tid, first, second) ==
    IF tid = "fastapi"
    THEN <<Ran("python -m venv", first), Ran("pip install -r", second)>>
    ELSE <<Ran("npm install", first)>>

\* (an install command that could not be spawned ends the invocation)
InstallErrorPropagated(runs) ==
    IF \E i \in DOMAIN runs : runs[i].outcome = "spawn_error"
    THEN "Failed to install dependencies" ELSE "none"

\* What the handler returns because of the install commands: nothing,
\* `let _ =` drops each result.
InstallError(runs) == "none"

\* "react-vite" | "node-express" | "fastapi": the files are written from
\* string literals, then the install command runs and its result is dropped.
InlineGenerate ==
    /\ pc = "match"
    /\ template_id \in InlineTemplates
    /\ fs_called' = TRUE
    /\ \E failed \in {"nothing", "create_dir_all", "write"},
          first \in ProcessOutcomes, second \in ProcessOutcomes :
         IF failed = "create_dir_all"
         THEN /\ Emit(<<Downloading(1, "Creating project structure...")>>)
              /\ ReturnErr("Failed to create directory")
              /\ UNCHANGED <<full_path_exists, spawned>>
         ELSE IF failed = "write"
         THEN /\ Emit(<<Downloading(1, "Creating project structure...")>>)
              /\ ReturnErr("Failed to create file")
              /\ full_path_exists' = [full_path_exists EXCEPT ![project_name] = TRUE]
              /\ UNCHANGED spawned
         ELSE /\ Emit(<<Downloading(1, "Creating project structure..."),
                        Installing(8, InstallMessage(template_id))>>)
              /\ full_path_exists' = [full_path_exists EXCEPT ![project_name] = TRUE]
              /\ spawned' = InstallRuns(template_id, first, second)
              /\ IF InstallError(spawned') # "none"
                 THEN ReturnErr(InstallError(spawned'))
                 ELSE /\ pc' = "complete"
                      /\ UNCHANGED result
    /\ UNCHANGED <<template_id, project_name, cache, cached_file, lookup,
                   store_calls, extract_runs, invocations, target_os, op_vars>>
    /\ UNCHANGED <<cache_ops, retry_vars, zip, cache_dir_exists, metadata_json,
                   cache_files>>

\* The program that generates the project of a template made by an
\* external tool.
Generator(tid) ==
    CASE tid = "react-nextjs" -> "npx create-next-app"
      [] tid = "vue-vite" -> "npm create vite"
      [] tid = "angular" -> "npx @angular/cli new"
      [] tid = "tauri-react" -> "npm create tauri-app"
      [] tid = "django" -> "django-admin startproject"
      [] OTHER -> "cargo new"

\* "react-nextjs" | "vue-vite" | "angular" | "tauri-react": the generator
\* runs once; a non-zero exit returns its stderr.
ExternalTool ==
    /\ pc = "match"
    /\ template_id \in ToolTemplates
    /\ Emit(<<Downloading(2, ToolMessage(template_id))>>)
    /\ \E ran \in ProcessOutcomes :
         /\ spawned' = <<Ran(Generator(template_id), ran)>>
         /\ IF ran = "spawn_error"
            THEN /\ ReturnErr("Failed to create project")
                 /\ UNCHANGED full_path_exists
            ELSE IF ran = "nonzero"
            THEN /\ ReturnErr("stderr")
                 /\ UNCHANGED full_path_exists
            ELSE /\ pc' = "complete"
                 /\ full_path_exists' = [full_path_exists EXCEPT ![project_name] = TRUE]
                 /\ UNCHANGED result
    /\ UNCHANGED <<template_id, project_name, cache, cached_file, lookup,
                   store_calls, extract_runs, invocations, target_os, op_vars>>
    /\ UNCHANGED <<retry_vars, zip, cache_dir_exists, metadata_json, cache_files>>
    /\ UNCHANGED <<cache_ops, fs_called>>

\* "django": pip install, then django-admin startproject; only a failure
\* to spawn is an error, the exit status is not looked at.
Django ==
    /\ pc = "match"
    /\ template_id = "django"
    /\ \E pip \in ProcessOutcomes, admin \in ProcessOutcomes :
         IF pip = "spawn_error"
         THEN /\ Emit(<<Installing(2, "Installing Django...")>>)
              /\ ReturnErr("Failed to install Django")
              /\ spawned' = <<Ran("pip install django", pip)>>
              /\ UNCHANGED full_path_exists
         ELSE IF admin = "spawn_error"
         THEN /\ Emit(<<Installing(2, "Installing Django..."),
                        Downloading(5, "Creating Django project...")>>)
              /\ ReturnErr("Failed to create Django project")
              /\ spawned' = <<Ran("pip install django", pip),
                              Ran(Generator(template_id), admin)>>
              /\ UNCHANGED full_path_exists
         ELSE /\ Emit(<<Installing(2, "Installing Django..."),
                        Downloading(5, "Creating Django project...")>>)
              /\ spawned' = <<Ran("pip install django", pip),
                              Ran(Generator(template_id), admin)>>
              /\ pc' = "complete"
              /\ full_path_exists' =
                    [full_path_exists EXCEPT
                       ![project_name] = @ \/ admin = "success"]
              /\ UNCHANGED result
    /\ UNCHANGED <<template_id, project_name, cache, cached_file, lookup,
                   store_calls, extract_runs, invocations, target_os, op_vars>>
    /\ UNCHANGED <<retry_vars, zip, cache_dir_exists, metadata_json, cache_files>>
    /\ UNCHANGED <<cache_ops, fs_called>>

\* "rust-actix": cargo new (exit status not looked at), then Cargo.toml is
\* read, extended and written back.
RustActix ==
    /\ pc = "match"
    /\ template_id = "rust-actix"
    /\ Emit(<<Downloading(2, "Creating Cargo project...")>>)
    /\ \E cargo \in ProcessOutcomes, read_ok \in BOOLEAN, write_ok \in BOOLEAN :
         LET created == full_path_exists[project_name] \/ cargo = "success" IN
         /\ full_path_exists' = [full_path_exists EXCEPT ![project_name] = created]
         /\ spawned' = <<Ran(Generator(template_id), cargo)>>
         /\ fs_called' = (cargo # "spawn_error" /\ created /\ read_ok)
         /\ IF cargo = "spawn_error"
            THEN ReturnErr("Failed to create Rust project")
            ELSE IF ~created \/ ~read_ok
            THEN ReturnErr("Failed to read Cargo.toml")
            ELSE IF ~write_ok
            THEN ReturnErr("Failed to write Cargo.toml")
            ELSE /\ pc' = "complete"
                 /\ UNCHANGED result
    /\ UNCHANGED <<template_id, project_name, cache, cached_file, lookup,
                   store_calls, extract_runs, invocations, target_os, op_vars>>
    /\ UNCHANGED <<retry_vars, zip, cache_dir_exists, metadata_json, cache_files>>
    /\ UNCHANGED cache_ops

\* _ => return Err(format!("Unknown template: {}", template_id))
UnknownArm ==
    /\ pc = "match"
    /\ template_id \notin KnownTemplates
    /\ ReturnErr("Unknown template")
    /\ UNCHANGED <<template_id, project_name, events, cache, cached_file, lookup,
                   store_calls, extract_runs, invocations, target_os, op_vars>>
    /\ UNCHANGED <<retry_vars, fs_vars>>
    /\ UNCHANGED <<spawned, cache_ops, fs_called>>

\* "springboot", up to the cache lookup: the second Initializing event,
\* create_dir_all(&location), the URL and its version, TemplateCache::new
\* (.ok() drops its error) and cache.get.
SpringbootBegin ==
    /\ pc = "match"
    /\ template_id = "springboot"
    /\ Emit(<<Initializing("Creating Spring Boot project...")>>)
    /\ fs_called' = TRUE
    /\ \E location_ok \in BOOLEAN, create_ok \in BOOLEAN, read_ok \in BOOLEAN :
         IF ~location_ok
         THEN /\ ReturnErr("Failed to create location directory")
              /\ UNCHANGED <<cache, cached_file, cache_dir_exists, cache_ops>>
         ELSE LET made == CacheNew(create_ok, read_ok) IN
              /\ cache' = made.handle
              /\ cache_dir_exists' = made.dir
              /\ cached_file' =
                    IF made.ok
                    THEN CacheGet(made.handle, "springboot", CacheVersion(project_name))
                    ELSE NoPath
              /\ cache_ops' = IF made.ok THEN {"new", "get"} ELSE {"new"}
              /\ pc' = "lookup"
              /\ UNCHANGED result
    /\ UNCHANGED <<template_id, project_name, lookup, store_calls, extract_runs,
                   invocations, target_os, op_vars>>
    /\ UNCHANGED <<retry_vars, zip, full_path_exists, metadata_json, cache_files>>
    /\ UNCHANGED spawned

\* (the existence check made on the destination archive instead of the
\* cached file)
CachedFileExistsAtDestination(path) == path.some /\ zip[project_name] # NoFile

\* path.exists() of the path cache.get returned
CachedFileExists(path) == path.some /\ cache_files[path.name] # NoFile

\* if let Some(path) = cached_file { if path.exists() { ...copy... } }
SpringbootUseCached ==
    /\ pc = "lookup"
    /\ CachedFileExists(cached_file)
    /\ lookup' = "hit"
    /\ Emit(<<Downloading(10, "Using cached template...")>>)
    /\ \E copy_ok \in BOOLEAN :
         IF copy_ok
         THEN /\ zip' = [zip EXCEPT ![project_name] = cache_files[cached_file.name]]
              /\ pc' = "extract"
              /\ UNCHANGED result
         ELSE /\ ReturnErr("Failed to copy cached file")
              /\ UNCHANGED zip
    /\ UNCHANGED <<template_id, project_name, cache, cached_file, store_calls,
                   extract_runs, invocations, target_os, op_vars>>
    /\ UNCHANGED <<retry_vars, full_path_exists, cache_dir_exists, metadata_json,
                   cache_files>>
    /\ UNCHANGED <<spawned, cache_ops, fs_called>>

\* Which miss it is, for the record.
MissKind ==
    IF cached_file.some THEN "stale"
    ELSE IF ~cache.some THEN "no_cache"
    ELSE IF \E t \in cache.templates : t.id = "springboot" THEN "other_version"
    ELSE "no_entry"

\* download_springboot, entered from either download branch: the
\* Downloading event, then retry_with_backoff(.., RetryConfig::default()).
DownloadSpringboot ==
    /\ pc = "lookup"
    /\ ~CachedFileExists(cached_file)
    /\ lookup' = MissKind
    /\ Emit(<<Downloading(2, "Downloading Spring Boot template...")>>)
    /\ RetryEnter("backoff", "download_springboot", DefaultRetryConfig)
    /\ pc' = "download"
    /\ UNCHANGED <<template_id, project_name, result, cache, cached_file,
                   store_calls, extract_runs, invocations, target_os, fs_vars, op_vars>>
    /\ UNCHANGED <<spawned, cache_ops, fs_called>>

\* the branch of the lookup that stores after its download: cached_file
\* was None
StoresAfterDownload(path) == ~path.some

\* download_springboot(..)? returns; in the None branch the archive is then
\* stored, `let _ =` dropping the result of store.
SpringbootDownloaded ==
    /\ pc = "download"
    /\ r_pc = "done"
    /\ r_pc' = "idle"
    /\ IF r_result.kind # "Ok"
       THEN /\ ReturnErr(r_result.val)
            /\ UNCHANGED <<cache, store_calls, cache_ops, cache_files, metadata_json>>
       ELSE /\ pc' = "extract"
            /\ UNCHANGED result
            /\ IF StoresAfterDownload(cached_file) /\ cache.some
               THEN \E copy_ok \in BOOLEAN, written \in WriteOutcomes :
                      LET stored == CacheStore(cache, "springboot",
                                               CacheVersion(project_name),
                                               ZipName(project_name),
                                               zip[project_name], copy_ok, written)
                      IN /\ cache' = stored.handle
                         /\ cache_files' = stored.cache_files
                         /\ metadata_json' = stored.metadata_json
                         /\ store_calls' = store_calls + 1
                         /\ cache_ops' = cache_ops \cup {"store"}
               ELSE UNCHANGED <<cache, store_calls, cache_ops, cache_files,
                                metadata_json>>
    /\ UNCHANGED <<template_id, project_name, events, cached_file, lookup,
                   extract_runs, invocations, target_os, op_vars>>
    /\ UNCHANGED <<r_fn, r_caller, r_cfg, r_attempt, r_delay, r_trace, r_result>>
    /\ UNCHANGED <<zip, full_path_exists, cache_dir_exists, spawned, fs_called>>

\* After a successful extraction: the archive may or may not hold a
\* directory named after the project, and the archive is removed, the
\* result of the removal dropped.
Extracted ==
    /\ \E layout_ok \in BOOLEAN, removed \in BOOLEAN :
         /\ full_path_exists' =
               [full_path_exists EXCEPT ![project_name] = @ \/ layout_ok]
         /\ zip' = [zip EXCEPT ![project_name] = IF removed THEN NoFile ELSE @]
    /\ pc' = "verify"
    /\ UNCHANGED result

\* The Extracting event and the extraction.  On Windows: Expand-Archive
\* through powershell.  Elsewhere: unzip, and tar when unzip could not be
\* run or failed.
SpringbootExtract ==
    /\ pc = "extract"
    /\ \E first \in ProcessOutcomes, second \in ProcessOutcomes :
         IF target_os = "windows"
         THEN /\ extract_runs' = extract_runs + 1
              /\ IF first = "spawn_error"
                 THEN /\ Emit(<<Extracting(6, "Extracting files...")>>)
                      /\ ReturnErr("Failed to execute powershell unzip")
                      /\ UNCHANGED <<zip, full_path_exists>>
                 ELSE IF first = "nonzero"
                 THEN /\ Emit(<<Extracting(6, "Extracting files..."),
                                Error("Extraction failed")>>)
                      /\ ReturnErr("Unzip failed")
                      /\ UNCHANGED <<zip, full_path_exists>>
                 ELSE /\ Emit(<<Extracting(6, "Extracting files...")>>)
                      /\ Extracted
         ELSE IF first = "success"
         THEN /\ extract_runs' = extract_runs + 1
              /\ Emit(<<Extracting(6, "Extracting files...")>>)
              /\ Extracted
         ELSE /\ extract_runs' = extract_runs + 2
              /\ IF second = "spawn_error"
                 THEN /\ Emit(<<Extracting(6, "Extracting files...")>>)
                      /\ ReturnErr("Failed to unzip")
                      /\ UNCHANGED <<zip, full_path_exists>>
                 ELSE IF second = "nonzero"
                 THEN /\ Emit(<<Extracting(6, "Extracting files..."),
                                Error("Extraction failed")>>)
                      /\ ReturnErr("stderr")
                      /\ UNCHANGED <<zip, full_path_exists>>
                 ELSE /\ Emit(<<Extracting(6, "Extracting files...")>>)
                      /\ Extracted
    /\ UNCHANGED <<template_id, project_name, cache, cached_file, lookup,
                   store_calls, invocations, target_os, op_vars>>
    /\ UNCHANGED <<retry_vars, cache_dir_exists, metadata_json, cache_files>>
    /\ UNCHANGED <<spawned, cache_ops, fs_called>>

\* (the verification left out: the arm ends after the Installing event)
SpringbootVerifyNoCheck ==
    /\ pc = "verify"
    /\ Emit(<<Installing(9, "Verifying project structure...")>>)
    /\ pc' = "complete"
    /\ UNCHANGED result
    /\ UNCHANGED <<template_id, project_name, cache, cached_file, lookup,
                   store_calls, extract_runs, invocations, target_os, op_vars>>
    /\ UNCHANGED <<retry_vars, fs_vars>>
    /\ UNCHANGED <<spawned, cache_ops, fs_called>>

\* (the Error event of the failed check not followed by a return: the
\* invocation goes on to its completion)
SpringbootVerifyNoReturn ==
    /\ pc = "verify"
    /\ IF full_path_exists[project_name]
       THEN Emit(<<Installing(9, "Verifying project structure...")>>)
       ELSE Emit(<<Installing(9, "Verifying project structure..."),
                   Error("Project directory not found")>>)
    /\ pc' = "complete"
    /\ UNCHANGED result
    /\ UNCHANGED <<template_id, project_name, cache, cached_file, lookup,
                   store_calls, extract_runs, invocations, target_os, op_vars>>
    /\ UNCHANGED <<retry_vars, fs_vars>>
    /\ UNCHANGED <<spawned, cache_ops, fs_called>>

\* The Installing event and the check that full_path exists.
SpringbootVerify ==
    /\ pc = "verify"
    /\ IF full_path_exists[project_name]
       THEN /\ Emit(<<Installing(9, "Verifying project structure...")>>)
            /\ pc' = "complete"
            /\ UNCHANGED result
       ELSE /\ Emit(<<Installing(9, "Verifying project structure..."),
                      Error("Project directory not found")>>)
            /\ ReturnErr("Project directory was not created at expected path")
    /\ UNCHANGED <<template_id, project_name, cache, cached_file, lookup,
                   store_calls, extract_runs, invocations, target_os, op_vars>>
    /\ UNCHANGED <<retry_vars, fs_vars>>
    /\ UNCHANGED <<spawned, cache_ops, fs_called>>

\* After the match: the Complete event and Ok(full_path_str).
Finish ==
    /\ pc = "complete"
    /\ Emit(<<Complete("Project created successfully!")>>)
    /\ result' = OkResult(project_name)
    /\ pc' = "returned"
    /\ UNCHANGED <<template_id, project_name, cache, cached_file, lookup,
                   store_calls, extract_runs, invocations, target_os, op_vars>>
    /\ UNCHANGED <<retry_vars, fs_vars>>
    /\ UNCHANGED <<spawned, cache_ops, fs_called>>

\* ------------------------------------------------------------------
\* Two invocations of the springboot arm for one project and location,
\* each on its own task with its own TemplateCache, from TemplateCache::new
\* to the return of cache.store.  Each step is one system call or one
\* group of calls that touch nothing shared.
\* ------------------------------------------------------------------
TaskIds == {"a", "b"}
NoTasks == [k \in TaskIds |-> [pc |-> "none", project |-> "none", templates |-> {}]]
TaskAt(k, position) == tasks[k].pc = position
Move(k, position) == tasks' = [tasks EXCEPT ![k].pc = position]

\* what the cache directory holds when the two invocations start: no
\* directory, an empty one, the archive of another project, or a
\* metadata.json that does not parse
PriorCaches == {"no_dir", "empty", "other_project", "corrupt"}
OtherProject(p) == CHOOSE q \in ProjectNames : q # p

\* The user starts the same project twice.
RaceSetup ==
    /\ NoClient
    /\ ~cache.some /\ last_call = NoCall
    /\ tasks = NoTasks
    /\ ~cache_dir_exists
    /\ \E p \in ProjectNames, prior \in PriorCaches :
         /\ tasks' = [k \in TaskIds |->
                        [pc |-> "new", project |-> p, templates |-> {}]]
         /\ cache_dir_exists' = (prior # "no_dir")
         /\ cache_files' =
               IF prior = "other_project"
               THEN [NoFiles EXCEPT ![ZipName(OtherProject(p))] = ArchiveContent]
               ELSE NoFiles
         /\ metadata_json' =
               IF prior = "other_project"
               THEN [state |-> "valid",
                     templates |-> {CachedTemplate("springboot",
                                        CacheVersion(OtherProject(p)),
                                        ZipName(OtherProject(p)),
                                        SizeBytes(ArchiveContent))}]
               ELSE IF prior = "corrupt"
               THEN [state |-> "corrupt", templates |-> {}]
               ELSE NoMetadata
    /\ UNCHANGED <<retry_vars, call_vars, zip, full_path_exists>>
    /\ UNCHANGED <<last_call, all_succeeded, pair>>

\* TemplateCache::new(app_data_dir).ok() and cache.get: a hit whose file
\* exists is copied into place and nothing is stored; otherwise the task
\* goes on to download.
TaskNew(k) ==
    /\ TaskAt(k, "new")
    /\ LET made == CacheNew(TRUE, TRUE)
           got == CacheGet(made.handle, "springboot",
                           CacheVersion(tasks[k].project))
       IN /\ cache_dir_exists' = made.dir
          /\ tasks' = [tasks EXCEPT
                         ![k].templates = made.handle.templates,
                         ![k].pc = IF CachedFileExists(got) THEN "hit"
                                   ELSE IF got.some THEN "no_store"
                                   ELSE "curl"]
    /\ UNCHANGED <<retry_vars, call_vars, zip, full_path_exists, metadata_json,
                   cache_files>>
    /\ UNCHANGED <<last_call, all_succeeded, pair>>

\* curl -L -o <zip_path> <url> opens its output file: what was there is
\* cut off.
TaskCurlStart(k) ==
    /\ TaskAt(k, "curl")
    /\ zip' = [zip EXCEPT ![tasks[k].project] = "partial"]
    /\ Move(k, "curling")
    /\ UNCHANGED <<retry_vars, call_vars, full_path_exists, cache_dir_exists,
                   metadata_json, cache_files>>
    /\ UNCHANGED <<last_call, all_succeeded, pair>>

\* what the archive holds while a download that began before another
\* one cut the file has ended and the other still runs: the length of the
\* whole, not its bytes
MixedContent == "mixed"

\* curl has written its last byte and exits with status 0.
TaskCurlEnd(k) ==
    /\ TaskAt(k, "curling")
    /\ zip' = [zip EXCEPT ![tasks[k].project] =
                 IF \E other \in TaskIds \ {k} : TaskAt(other, "curling")
                 THEN MixedContent ELSE ArchiveContent]
    /\ Move(k, "store")
    /\ UNCHANGED <<retry_vars, call_vars, full_path_exists, cache_dir_exists,
                   metadata_json, cache_files>>
    /\ UNCHANGED <<last_call, all_succeeded, pair>>

\* cache.store up to the insert: size_bytes, std::fs::copy into the cache
\* directory, templates.insert.
TaskStoreCopy(k) ==
    /\ TaskAt(k, "store")
    /\ LET p == tasks[k].project IN
       /\ cache_files' = [cache_files EXCEPT ![ZipName(p)] = zip[p]]
       /\ tasks' = [tasks EXCEPT
                      ![k].templates =
                          InsertTemplate(@, "springboot", CacheVersion(p),
                                         ZipName(p), SizeBytes(zip[p])),
                      ![k].pc = "save"]
    /\ UNCHANGED <<retry_vars, call_vars, zip, full_path_exists,
                   cache_dir_exists, metadata_json>>
    /\ UNCHANGED <<last_call, all_succeeded, pair>>

\* The length of the pretty-printed JSON of a map, as far as maps of the
\* model differ in it: every entry takes the same room but for the digits
\* of size_bytes.
SerializedLen(templates) ==
    10 * Cardinality(templates)
        + Cardinality({t \in templates : t.size_bytes = "long"})

\* write_all on a file opened by File::create: the bytes go over what the
\* file holds from its start; when another writer has put a longer document
\* there since the truncation, its tail stays and the file does not parse.
WriteBytes(file, templates) ==
    IF file.state = "valid"
         /\ SerializedLen(file.templates) > SerializedLen(templates)
    THEN [state |-> "corrupt", templates |-> {}]
    ELSE [state |-> "valid", templates |-> templates]

\* save_metadata, first half: std::fs::write opens metadata.json with
\* File::create, which truncates it.
TaskTruncate(k) ==
    /\ TaskAt(k, "save")
    /\ metadata_json' = [state |-> "corrupt", templates |-> {}]
    /\ Move(k, "write")
    /\ UNCHANGED <<retry_vars, call_vars, zip, full_path_exists,
                   cache_dir_exists, cache_files>>
    /\ UNCHANGED <<last_call, all_succeeded, pair>>

\* save_metadata, second half: write_all; store returns Ok.
TaskWrite(k) ==
    /\ TaskAt(k, "write")
    /\ metadata_json' = WriteBytes(metadata_json, tasks[k].templates)
    /\ Move(k, "done")
    /\ UNCHANGED <<retry_vars, call_vars, zip, full_path_exists,
                   cache_dir_exists, cache_files>>
    /\ UNCHANGED <<last_call, all_succeeded, pair>>

\* ==================================================================
\* initial state
\* ==================================================================
Init ==
    /\ r_pc = "idle"
    /\ r_fn = "backoff"
    /\ r_caller = "harness"
    /\ r_cfg = DefaultRetryConfig
    /\ r_attempt = 0
    /\ r_delay = 0
    /\ r_trace = <<>>
    /\ r_result = NoResult
    /\ pc = "idle"
    /\ template_id = "none"
    /\ project_name = "none"
    /\ events = <<>>
    /\ result = NoResult
    /\ cache = NoHandle
    /\ cached_file = NoPath
    /\ lookup = "none"
    /\ store_calls = 0
    /\ extract_runs = 0
    /\ invocations = 0
    /\ target_os \in {"windows", "other"}
    /\ zip = [p \in ProjectNames |-> NoFile]
    /\ full_path_exists = [p \in ProjectNames |-> FALSE]
    /\ cache_dir_exists = FALSE
    /\ metadata_json = NoMetadata
    /\ cache_files = NoFiles
    /\ spawned = <<>>
    /\ cache_ops = {}
    /\ fs_called = FALSE
    /\ last_call = NoCall
    /\ all_succeeded = FALSE
    /\ tasks = NoTasks
    /\ pair = NoPair

\* The retry functions alone, under every RetryConfig of the harness.
NextRetry ==
    \/ CallRetryWithBackoff
    \/ CallRetryWithCondition
    \/ BackoffAttempt
    \/ ConditionAttempt

SpecRetry == Init /\ [][NextRetry]_vars

\* One operation under both retry functions.
NextPair ==
    \/ PairEnter
    \/ PairAttempt

SpecPair == Init /\ [][NextPair]_vars

\* create_project_from_template, invoked up to MaxInvocations times, one
\* invocation after the other, on one filesystem.
Next ==
    \/ Invoke
    \/ InlineGenerate
    \/ ExternalTool
    \/ Django
    \/ RustActix
    \/ UnknownArm
    \/ SpringbootBegin
    \/ SpringbootUseCached
    \/ DownloadSpringboot
    \/ BackoffAttempt
    \/ SpringbootDownloaded
    \/ SpringbootExtract
    \/ SpringbootVerify
    \/ Finish
    \/ ExternalRemoveCachedFile

Spec == Init /\ [][Next]_vars

\* TemplateCache alone, under a client that makes any call.
NextCache ==
    \/ CacheOpen
    \/ CacheStoreCall
    \/ CacheClearCall
    \/ StoreInterrupted
    \/ CacheDrop
    \/ ExternalRemoveCacheDir

\* (cfg(target_os) plays no part in cache.rs)
InitCache == Init /\ target_os = "other"

SpecCache == InitCache /\ [][NextCache]_vars

\* The client of one TemplateCache that stores from any path: files
\* outside the cache directory, paths inside it, paths without a file
\* name.
NextStore ==
    \/ CacheOpen
    \/ CacheStoreCall
    \/ CacheStoreOddCall
    \/ CacheDrop

SpecStore == InitCache /\ [][NextStore]_vars

\* Two invocations of the springboot arm at the same time.
NextRace ==
    \/ RaceSetup
    \/ \E k \in TaskIds :
         \/ TaskNew(k)
         \/ TaskCurlStart(k)
         \/ TaskCurlEnd(k)
         \/ TaskStoreCopy(k)
         \/ TaskTruncate(k)
         \/ TaskWrite(k)

SpecRace == Init /\ [][NextRace]_vars

\* ==================================================================
\* Properties
\* ==================================================================

\* positions of the trace holding an event of one kind
Positions(trace, kind) == {i \in DOMAIN trace : trace[i].ev = kind}
NumCalls == Cardinality(Positions(r_trace, "call"))
NumSleeps == Cardinality(Positions(r_trace, "sleep"))
FailedCalls == {i \in Positions(r_trace, "call") : ~r_trace[i].arg.ok}
AllCallsFailed == FailedCalls = Positions(r_trace, "call")
\* the i-th sleep of the trace, i >= 1
RECURSIVE NthPosition(_, _, _)
NthPosition(trace, kind, n) ==
    LET first == CHOOSE i \in Positions(trace, kind) :
                    \A j \in Positions(trace, kind) : i <= j
    IN IF n = 1 THEN first
       ELSE first + NthPosition(SubSeq(trace, first + 1, Len(trace)), kind, n - 1)
HarnessBackoffDone ==
    r_pc = "done" /\ r_fn = "backoff" /\ r_caller = "harness"
HarnessConditionDone ==
    r_pc = "done" /\ r_fn = "condition" /\ r_caller = "harness"

\* C2: retry_with_backoff with max_retries = n, given an operation that
\* fails on every call, ends after exactly n+1 calls of the operation and
\* returns Err with the error of the last call; while it runs it has made
\* as many calls as `attempt` counts, at most n.
C2_AlwaysFailingReturnsLastError ==
    /\ (r_pc = "loop" /\ r_fn = "backoff")
          => /\ r_attempt <= r_cfg.max_retries
             /\ NumCalls = r_attempt
    /\ (HarnessBackoffDone /\ AllCallsFailed)
          => /\ NumCalls = r_cfg.max_retries + 1
             /\ r_trace[Len(r_trace)].ev = "call"
             /\ r_result = ErrResult(r_trace[Len(r_trace)].arg.val)

\* An always-failing operation under max_retries = 2: three calls, whose
\* last error differs from the first and is the one returned.
C2_Witness ==
    /\ HarnessBackoffDone /\ AllCallsFailed
    /\ r_cfg.max_retries = 2
    /\ NumCalls = 3
    /\ r_trace[1].arg.val = "e1"
    /\ r_result = ErrResult("e2")

\* C3: when the first k-1 calls fail and the k-th succeeds (k <= n+1),
\* retry_with_backoff calls the operation exactly k times, returns Ok with
\* the value of the k-th call, and that call is the last thing it does: no
\* sleep follows it.  After fewer than n+1 failures it is still running.
C3_SuccessAtAttemptK ==
    /\ (r_pc = "loop" /\ r_fn = "backoff")
          => /\ AllCallsFailed
             /\ NumCalls = r_attempt
             /\ r_attempt <= r_cfg.max_retries
    /\ (HarnessBackoffDone /\ ~AllCallsFailed)
          => LET k == NumCalls
                 last == r_trace[Len(r_trace)]
             IN /\ k <= r_cfg.max_retries + 1
                /\ Cardinality(FailedCalls) = k - 1
                /\ last.ev = "call" /\ last.arg.ok
                /\ r_result = OkResult(last.arg.val)
                /\ NumSleeps = k - 1
    /\ (HarnessBackoffDone /\ AllCallsFailed)
          => NumCalls = r_cfg.max_retries + 1

\* Two failures, then success at the third call, under max_retries = 3.
C3_Witness ==
    /\ HarnessBackoffDone
    /\ r_cfg.max_retries = 3
    /\ NumCalls = 3
    /\ Cardinality(FailedCalls) = 2
    /\ NumSleeps = 2
    /\ r_result = OkResult("v2")

\* C4: the sleep before attempt i (i >= 1) of retry_with_backoff and of
\* retry_with_condition is min(initial_delay_ms * 2^(i-1), max_delay_ms),
\* for every RetryConfig.
C4_BackoffGrowth ==
    \A i \in 1 .. NumSleeps :
        r_trace[NthPosition(r_trace, "sleep", i)].arg =
            Min(r_cfg.initial_delay_ms * Pow2(i - 1), r_cfg.max_delay_ms)

\* C5: in retry_with_condition, a failed attempt for which should_retry
\* answers false ends the call at once with that attempt's error: the
\* answer is the last event (no sleep, no further call of the operation),
\* whatever number of attempts remains; and every sleep comes after the
\* predicate was asked about the failure before it and answered true.
C5_NotRetryableReturnsAtOnce ==
    r_fn = "condition" =>
      /\ \A i \in Positions(r_trace, "should_retry") :
            /\ i > 1
            /\ r_trace[i - 1].ev = "call" /\ ~r_trace[i - 1].arg.ok
            /\ ~r_trace[i].arg =>
                  /\ i = Len(r_trace)
                  /\ r_pc = "done"
                  /\ r_result = ErrResult(r_trace[i - 1].arg.val)
      /\ \A j \in Positions(r_trace, "sleep") :
            /\ j > 2
            /\ r_trace[j - 1].ev = "should_retry" /\ r_trace[j - 1].arg
            /\ r_trace[j - 2].ev = "call" /\ ~r_trace[j - 2].arg.ok

\* should_retry answers false on the second failure with attempts left:
\* two calls, one sleep, the second error returned.
C5_Witness ==
    /\ HarnessConditionDone
    /\ r_cfg.max_retries = 4
    /\ r_attempt = 1
    /\ NumCalls = 2
    /\ NumSleeps = 1
    /\ r_trace[Len(r_trace)].ev = "should_retry"
    /\ ~r_trace[Len(r_trace)].arg
    /\ r_trace[1].arg.val = "e1"
    /\ r_result = ErrResult("e2")

\* ------------------------------------------------------------------
\* create_project_from_template
\* ------------------------------------------------------------------
Stages(stage) == {i \in DOMAIN events : events[i].stage = stage}
TerminalEvents == Stages("Complete") \cup Stages("Error")
Messages(message) == {i \in DOMAIN events : events[i].message = message}
Returned == pc = "returned"
\* calls of the download closure made by this invocation
DownloadAttempts == IF r_caller = "download_springboot" THEN NumCalls ELSE 0

\* C1: for every template id and every injected failure (download failing
\* on all attempts, a subprocess that cannot be spawned or exits non-zero,
\* a failing filesystem write, the directory missing after extraction), an
\* invocation that has returned emitted exactly one terminal event, and it
\* returned Ok exactly when that event is Complete.  (The return on a
\* destination path that is not UTF-8 is not among the claim's failures
\* and is left aside.)
C1_ExactlyOneTerminalEvent ==
    (Returned /\ result # ErrResult("Invalid path")) =>
        /\ Cardinality(TerminalEvents) = 1
        /\ result.kind = "Ok" <=> Stages("Complete") # {}

\* C6: the progress values of the events of one invocation never decrease
\* from one event to the next (stated here for the events that are not
\* Error events, whose progress is 0.0 by construction).
C6_ProgressNonDecreasing ==
    \A i, j \in DOMAIN events :
        (i < j /\ events[i].stage # "Error" /\ events[j].stage # "Error")
            => events[i].progress <= events[j].progress

\* the condition of the cache-hit branch, on the state: cache.get returned
\* a path and the file it names is in the cache directory
CacheHitHolds ==
    cached_file.some /\ cache_files[cached_file.name] # NoFile

\* C7: in the springboot arm, when cache.get returned a path and the file
\* exists, the invocation never calls download_springboot (no download
\* attempt, no "Downloading Spring Boot template..." event); once past the
\* lookup it has emitted the "Using cached template..." event once, the
\* archive copied into the destination is the cached one when extraction
\* starts, and an invocation that returns Ok on this path has run the
\* extraction and full_path exists.
C7_CacheHitSkipsDownload ==
    (template_id = "springboot" /\ pc # "match" /\ CacheHitHolds) =>
        /\ DownloadAttempts = 0
        /\ r_pc = "idle"
        /\ pc # "download"
        /\ Messages("Downloading Spring Boot template...") = {}
        /\ store_calls = 0
        /\ pc # "lookup" =>
              /\ lookup = "hit"
              /\ Cardinality(Messages("Using cached template...")) = 1
        /\ pc = "extract" => zip[project_name] = cache_files[cached_file.name]
        /\ (Returned /\ result # ErrResult("Failed to copy cached file"))
              => /\ extract_runs >= 1
                 /\ Stages("Extracting") # {}
        /\ (Returned /\ result.kind = "Ok")
              => /\ full_path_exists[project_name]
                 /\ result = OkResult(project_name)

\* A second invocation that found the archive of the first in the cache
\* and returned Ok without a download attempt.
C7_Witness ==
    /\ template_id = "springboot" /\ CacheHitHolds
    /\ invocations = 2
    /\ Returned /\ result.kind = "Ok"
    /\ lookup = "hit"
    /\ DownloadAttempts = 0
    /\ extract_runs >= 1
    /\ full_path_exists[project_name]

CacheMisses == {"no_cache", "no_entry", "other_version", "stale"}

\* C8: on a cache miss the fetch is attempted at most 4 times; when all 4
\* attempts fail the invocation emits an Error event and returns Err with
\* no extraction attempted.
C8_DownloadExhaustionEmitsError ==
    (template_id = "springboot" /\ lookup \in CacheMisses) =>
        /\ DownloadAttempts <= 4
        /\ (Returned /\ DownloadAttempts = 4 /\ AllCallsFailed) =>
              /\ Stages("Error") # {}
              /\ result.kind = "Err"
              /\ extract_runs = 0
              /\ Stages("Extracting") = {}

\* C9: after a successful download on a cache miss with a cache handle (no
\* entry for the id, an entry of another version, or a matching entry whose
\* file is gone), TemplateCache.store("springboot", version, archive) has
\* been called by the time extraction starts.
C9_DownloadIsStored ==
    (template_id = "springboot" /\ pc = "extract"
        /\ lookup \in {"no_entry", "other_version", "stale"})
        => store_calls = 1

\* the Err results that come from a step of the cache: the copy of the
\* cached archive into place (new and store have their errors dropped)
CacheStepErrors == {"Failed to copy cached file"}

\* C10: no failure of a cache step (construction, corrupt metadata, store,
\* the copy of a cache-hit file into place) makes the invocation return
\* Err.
C10_CacheFailureNeverFatal ==
    Returned => ~(result.kind = "Err" /\ result.val \in CacheStepErrors)

\* the templates whose project an external generator makes
GeneratorTemplates == ToolTemplates \cup {"django", "rust-actix"}
\* the runs of the generator of this invocation's template
GeneratorRuns ==
    {i \in DOMAIN spawned : spawned[i].program = Generator(template_id)}

\* C11: for a template made by an external generator (react-nextjs,
\* vue-vite, angular, django, rust-actix, tauri-react), when the generator
\* exits with a non-zero status the invocation returns Err with the
\* generator's stderr as message and emits no Complete event, and the
\* generator has run exactly once.
C11_GeneratorFailureIsErr ==
    (/\ Returned
     /\ template_id \in GeneratorTemplates
     /\ \E i \in GeneratorRuns : spawned[i].outcome = "nonzero")
        => /\ result = ErrResult("stderr")
           /\ Stages("Complete") = {}
           /\ Cardinality(GeneratorRuns) = 1

\* C12: for an inline template (react-vite, node-express, fastapi), when
\* every directory creation and file write succeeded the invocation emits
\* Complete and returns Ok, whether the install command could not be
\* spawned, exited non-zero or succeeded; it makes no download attempt and
\* calls no TemplateCache method.  (An invocation whose path is not valid
\* UTF-8 returns before the arm; fs_called tells that the arm was entered.)
C12_InlineIgnoresInstall ==
    template_id \in InlineTemplates =>
        /\ DownloadAttempts = 0
        /\ cache_ops = {} /\ store_calls = 0 /\ ~cache.some
        /\ (Returned /\ fs_called
                     /\ result.val \notin {"Failed to create directory",
                                            "Failed to create file"})
              => /\ result = OkResult(project_name)
                 /\ Cardinality(Stages("Complete")) = 1
                 /\ spawned # <<>>

\* an inline template returned Ok although an install command exited
\* non-zero and another could not be spawned
C12_Witness ==
    /\ Returned /\ template_id = "fastapi"
    /\ result.kind = "Ok"
    /\ Stages("Complete") # {}
    /\ spawned[1].outcome = "nonzero"
    /\ spawned[2].outcome = "spawn_error"

\* this invocation ran no subprocess, made no download attempt and no
\* retry, called no TemplateCache method and no std::fs function
NoWorkDone ==
    /\ spawned = <<>> /\ extract_runs = 0
    /\ r_trace = <<>> /\ r_pc = "idle"
    /\ cache_ops = {} /\ store_calls = 0 /\ ~cache.some
    /\ ~fs_called

ExtractionFailureMessages ==
    {"Failed to execute powershell unzip", "Unzip failed", "Failed to unzip",
     "stderr"}
PostconditionMessage == "Project directory was not created at expected path"
\* the extraction of this invocation reported success: the handler went on
\* to the verification
ExtractionSucceeded == Messages("Verifying project structure...") # {}

\* C14: in the springboot arm, when the extraction reported success and
\* full_path does not exist afterwards, the invocation emits an Error
\* event, emits no Complete event and returns Err with the 'project
\* directory was not created' message, which no failed extraction
\* returns.
C14_MissingDirectoryIsDistinctError ==
    /\ PostconditionMessage \notin ExtractionFailureMessages
    /\ (template_id = "springboot" /\ Returned /\ ExtractionSucceeded) =>
           /\ result.val \notin ExtractionFailureMessages
           /\ ~full_path_exists[project_name] =>
                 /\ result = ErrResult(PostconditionMessage)
                 /\ Messages("Project directory not found") \subseteq Stages("Error")
                 /\ Cardinality(Messages("Project directory not found")) = 1
                 /\ Stages("Complete") = {}
    /\ (template_id = "springboot" /\ Returned
           /\ result = ErrResult(PostconditionMessage)) =>
           /\ ExtractionSucceeded
           /\ Messages("Extraction failed") = {}

\* the archive was extracted without error and the project directory is
\* not there
C14_Witness ==
    /\ template_id = "springboot" /\ Returned
    /\ extract_runs >= 1
    /\ ExtractionSucceeded
    /\ ~full_path_exists[project_name]
    /\ result = ErrResult(PostconditionMessage)

\* the last step was a call of store that returned Ok
StoredOk == last_call.op = "store" /\ last_call.ok

\* what HashMap::insert returned in that call: the entry it replaced
Replaced == {t \in last_call.before : t.id = last_call.id}

\* C15: get(id, version) returns a path only when the map has an entry
\* for id whose version is exactly `version`, and then that entry's path;
\* so after store(id, v1, f1) and store(id, v2, f2) on a handle,
\* get(id, v1) is None and get(id, v2) is the cached path of f2.
C15_GetRequiresExactVersion ==
    cache.some =>
        /\ \A id \in CacheIds, v \in Versions :
              LET got == CacheGet(cache, id, v) IN
              got.some <=>
                 \E t \in ListCached(cache) :
                    t.id = id /\ t.version = v /\ t.file_path = got.name
        /\ StoredOk =>
              /\ CacheGet(cache, last_call.id, last_call.version)
                    = SomePath(last_call.name)
              /\ \A v \in Versions \ {last_call.version} :
                    CacheGet(cache, last_call.id, v) = NoPath

\* store(id, "v2", f2) returned Ok on a handle whose entry for id had
\* version "v1" and another file
C15_Witness ==
    /\ cache.some /\ StoredOk
    /\ last_call.version = "v2"
    /\ \E t \in Replaced :
          t.version = "v1" /\ t.file_path # last_call.name

Ids(templates) == {t.id : t \in templates}

\* C16: a store of an (id, version) that is already in the map, from
\* another source file, makes get(id, version) the cached path of the file
\* stored last, and that path holds the file stored last; and whatever
\* stores were made, list_cached() has exactly one entry for each id: the
\* ids it had and the id stored.
C16_LastStoreWins ==
    cache.some =>
        /\ Cardinality(ListCached(cache)) = Cardinality(Ids(ListCached(cache)))
        /\ StoredOk =>
              /\ CacheGet(cache, last_call.id, last_call.version)
                    = SomePath(last_call.name)
              /\ cache_files[last_call.name] = last_call.content
              /\ Ids(ListCached(cache))
                    = Ids(last_call.before) \cup {last_call.id}
              /\ {t \in ListCached(cache) : t.id # last_call.id}
                    = {t \in last_call.before : t.id # last_call.id}

\* the same (id, version) was stored again, from a file of another name or
\* of other content
C16_Witness ==
    /\ cache.some /\ StoredOk
    /\ \E t \in Replaced :
          /\ t.version = last_call.version
          /\ \/ t.file_path # last_call.name
             \/ last_call.overwrote \notin {NoFile, last_call.content}
    /\ Cardinality(ListCached(cache)) = 2

\* a TemplateCache made now on the same base directory, with no I/O
\* failure of its own
FreshCache == CacheNew(TRUE, TRUE)

\* C17: after any sequence of store and clear calls on a handle that all
\* returned Ok, a TemplateCache newly made on the same base directory
\* gives the same get result as the handle for every (id, version).
C17_FreshHandleAgrees ==
    (cache.some /\ all_succeeded) =>
        /\ FreshCache.ok
        /\ \A id \in CacheIds, v \in Versions :
              CacheGet(FreshCache.handle, id, v) = CacheGet(cache, id, v)

\* a handle on which every call succeeded, the last one a store that
\* replaced an entry and left two in the map
C17_Witness ==
    /\ cache.some /\ all_succeeded /\ StoredOk
    /\ Replaced # {}
    /\ Replaced # {t \in ListCached(cache) : t.id = last_call.id}
    /\ Cardinality(ListCached(cache)) = 2

\* C18: after clear(), whatever the state of the cache directory was
\* before the call (present or removed) and with no I/O operation of the
\* call failing for a reason of its own, get is None for every key the
\* handle had, list_cached() is empty, the persisted metadata is the empty
\* map, the cache directory exists and a store that follows succeeds.
C18_ClearLeavesWorkingCache ==
    (last_call.op = "clear" /\ last_call.fault = "none") =>
        /\ \A t \in last_call.had : CacheGet(cache, t.id, t.version) = NoPath
        /\ ListCached(cache) = {}
        /\ last_call.ok
        /\ metadata_json = [state |-> "valid", templates |-> {}]
        /\ cache_dir_exists
        /\ \A file \in SourceFiles :
              CacheStore(cache, "t", "v1", file.name, file.content, TRUE, "ok").ok

\* C19: TemplateCache::new does not fail because of the metadata file.
\* When the cache directory is there after the call (its creation did not
\* fail), the call returned Ok; the map is empty when metadata.json is
\* absent, unparsable or unreadable, and is the file's map when the file
\* is valid.
C19_NewToleratesMetadata ==
    (last_call.op = "new" /\ cache_dir_exists) =>
        /\ last_call.ok
        /\ cache.some
        /\ ListCached(cache) =
              IF metadata_json.state = "valid" /\ last_call.read_ok
              THEN metadata_json.templates ELSE {}

\* C20: when a store is interrupted after the file copy and before the
\* metadata write, no later handle returns a stale hit: a path that get
\* returns for an (id, version) other than the one being stored holds
\* what it held before, the content stored for that (id, version); the
\* interrupted store has at most left a file no entry names.
C20_InterruptedStoreLeavesOrphan ==
    last_call.op = "store_interrupted" =>
        /\ FreshCache.ok
        /\ \A id \in CacheIds, v \in Versions :
              LET got == CacheGet(FreshCache.handle, id, v) IN
              (/\ got.some
               /\ got.name = last_call.name
               /\ ~(id = last_call.id /\ v = last_call.version))
                  => cache_files[got.name] = last_call.overwrote

\* both invocations have stored: each store returned
BothStored == \A k \in TaskIds : TaskAt(k, "done")

\* C21: when two invocations, each with its own TemplateCache on the same
\* base directory, store the same (id, version) at the same time, then
\* however their copies and metadata writes interleave, metadata.json in
\* the end holds the map one of the two handles wrote, whole, and a new
\* handle's get(id, version) returns the path of a cached file that
\* exists.
C21_ConcurrentStoresLastWriteWins ==
    BothStored =>
        /\ \E k \in TaskIds :
              metadata_json = [state |-> "valid", templates |-> tasks[k].templates]
        /\ \A k \in TaskIds :
              CachedFileExists(CacheGet(FreshCache.handle, "springboot",
                                        CacheVersion(tasks[k].project)))

\* the order of the stages an invocation is said to go through
StageOrder == <<"Initializing", "Downloading", "Extracting", "Installing",
                "Complete">>
StageRank(stage) == CHOOSE n \in DOMAIN StageOrder : StageOrder[n] = stage

\* C22: within one invocation, for every template id, the stages of the
\* emitted events never go backwards in the order Initializing,
\* Downloading, Extracting, Installing, Complete; an Error event may
\* follow any stage.
C22_StagesNeverGoBackwards ==
    \A i, j \in DOMAIN events :
        (i < j /\ events[i].stage # "Error" /\ events[j].stage # "Error")
            => StageRank(events[i].stage) <= StageRank(events[j].stage)

\* C23: an invocation emits no progress event after a terminal event: an
\* Error event is the last event and the invocation has returned Err
\* right after it, a Complete event is the last event and the invocation
\* has returned Ok right after it.
C23_TerminalEventIsLast ==
    /\ \A i \in TerminalEvents : i = Len(events)
    /\ Stages("Error") # {} => (Returned /\ result.kind = "Err")
    /\ Stages("Complete") # {} => (Returned /\ result.kind = "Ok")

\* The directory is missing after the extraction: Installing, then Error
\* as the last event, and Err returned.
C23_Witness ==
    /\ Returned
    /\ template_id = "springboot"
    /\ Len(events) > 1
    /\ events[Len(events)].stage = "Error"
    /\ events[Len(events)].message = "Project directory not found"
    /\ events[Len(events) - 1].stage = "Installing"
    /\ result = ErrResult("Project directory was not created at expected path")

\* C24: retry_with_backoff sleeps only after a failed attempt that is
\* followed by another attempt: every sleep comes right after a failed
\* call and right before the next call.  An operation that always fails
\* under max_retries = n is slept for exactly n times, and with
\* max_retries = 0 there is no sleep at all.
C24_SleepsOnlyBetweenAttempts ==
    r_fn = "backoff" =>
        /\ \A j \in Positions(r_trace, "sleep") :
              /\ j > 1
              /\ r_trace[j - 1].ev = "call" /\ ~r_trace[j - 1].arg.ok
              /\ IF j = Len(r_trace)
                 THEN r_pc = "loop" /\ r_attempt <= r_cfg.max_retries
                 ELSE r_trace[j + 1].ev = "call"
        /\ (HarnessBackoffDone /\ AllCallsFailed)
              => NumSleeps = r_cfg.max_retries
        /\ r_cfg.max_retries = 0 => NumSleeps = 0

\* An always-failing operation under max_retries = 4: five calls with a
\* sleep between each two, none after the last.
C24_Witness ==
    /\ HarnessBackoffDone /\ AllCallsFailed
    /\ r_cfg.max_retries = 4
    /\ NumCalls = 5
    /\ NumSleeps = 4
    /\ r_trace[Len(r_trace)].ev = "call"
    /\ r_trace[Len(r_trace) - 1].ev = "sleep"

\* what a caller can observe of a run: the calls of the operation and the
\* sleeps, in order
Observed(trace) == SelectSeq(trace, LAMBDA e : e.ev # "should_retry")
PairRunning == pair.pc = "run"

\* C25: retry_with_backoff behaves as retry_with_condition with a
\* predicate that is always true: on the same operation and config both
\* call the operation the same number of times, sleep for the same
\* durations in the same places, and return the same result.
C25_BackoffIsConditionAlwaysTrue ==
    PairRunning =>
        /\ pair.backoff.pc = pair.condition.pc
        /\ pair.backoff.trace = Observed(pair.condition.trace)
        /\ pair.backoff.result = pair.condition.result
        /\ pair.backoff.delay = pair.condition.delay

\* Three failures then success under growing delays: both have slept
\* 1, 2, 3 and returned the fourth call's value, the predicate having
\* been asked three times.
C25_Witness ==
    /\ PairRunning
    /\ pair.cfg = [max_retries |-> 4, initial_delay_ms |-> 1, max_delay_ms |-> 3]
    /\ pair.backoff.pc = "done" /\ pair.condition.pc = "done"
    /\ pair.backoff.result = OkResult("v1")
    /\ pair.condition.result = OkResult("v1")
    /\ Cardinality(Positions(pair.condition.trace, "should_retry")) = 3
    /\ \E i, j, k \in DOMAIN pair.backoff.trace :
          /\ i < j /\ j < k
          /\ pair.backoff.trace[i].ev = "sleep" /\ pair.backoff.trace[i].arg = 1
          /\ pair.backoff.trace[j].ev = "sleep" /\ pair.backoff.trace[j].arg = 2
          /\ pair.backoff.trace[k].ev = "sleep" /\ pair.backoff.trace[k].arg = 3

\* C26: whenever store(id, version, f) returns Ok, for a source path f
\* outside the cache directory or already located in it, get(id, version)
\* on the same handle returns the path of a file inside the cache
\* directory that exists on disk.
C26_StoredFileExists ==
    (cache.some /\ StoredOk) =>
        LET got == CacheGet(cache, last_call.id, last_call.version) IN
        /\ got.some
        /\ cache_dir_exists
        /\ cache_files[got.name] # NoFile

\* C27: in the springboot arm, after a successful extraction the archive
\* <location>/<project_name>.zip no longer exists when the invocation
\* returns, whether it was downloaded or copied from the cache, and the
\* copy in the cache directory that a cache hit used is still there; the
\* archive may remain only after a failed extraction.  (Stated for the
\* invocations that return Ok.)
C27_ArchiveRemovedAfterExtraction ==
    [][(/\ pc # "returned" /\ pc' = "returned"
        /\ template_id = "springboot"
        /\ ExtractionSucceeded
        /\ result'.kind = "Ok")
          => /\ zip'[project_name] = NoFile
             /\ lookup = "hit" => cache_files'[cached_file.name] # NoFile]_vars

\* C28: a store that returns Err (the source has no file name, the copy
\* fails, or the metadata write fails) leaves the handle's observable
\* state as it was: get and list_cached return what they returned before
\* the call, and metadata.json on disk is unchanged.
C28_FailedStoreChangesNothing ==
    [][(cache.some /\ last_call'.op = "store" /\ ~last_call'.ok)
          => /\ ListCached(cache') = ListCached(cache)
             /\ \A id \in CacheIds, v \in Versions :
                   CacheGet(cache', id, v) = CacheGet(cache, id, v)
             /\ metadata_json' = metadata_json]_vars

\* the number of the attempt (from 0) made by the call at position i
AttemptOf(i) == Cardinality({c \in Positions(r_trace, "call") : c < i})

\* C29: retry_with_condition calls should_retry exactly once for each
\* failed attempt other than the last allowed one, right after it, and
\* never after a success nor for the failure of attempt max_retries; with
\* max_retries = 0 the predicate is never called and the single error is
\* returned.
C29_PredicateCalledOncePerRetryableFailure ==
    r_fn = "condition" =>
        /\ \A j \in Positions(r_trace, "should_retry") :
              /\ j > 1
              /\ r_trace[j - 1].ev = "call" /\ ~r_trace[j - 1].arg.ok
              /\ AttemptOf(j - 1) < r_cfg.max_retries
        /\ \A i \in Positions(r_trace, "call") :
              IF ~r_trace[i].arg.ok /\ AttemptOf(i) < r_cfg.max_retries
              THEN /\ i < Len(r_trace)
                   /\ r_trace[i + 1].ev = "should_retry"
              ELSE i = Len(r_trace) /\ r_pc = "done"
        /\ (r_cfg.max_retries = 0 /\ r_pc = "done")
              => /\ Positions(r_trace, "should_retry") = {}
                 /\ NumCalls = 1
                 /\ ~r_trace[1].arg.ok => r_result = ErrResult(r_trace[1].arg.val)

\* Three failures under max_retries = 2, the predicate answering true:
\* it was asked about the first two, not about the third.
C29_Witness ==
    /\ HarnessConditionDone /\ AllCallsFailed
    /\ r_cfg.max_retries = 2
    /\ NumCalls = 3
    /\ Cardinality(Positions(r_trace, "should_retry")) = 2
    /\ r_trace[Len(r_trace)].ev = "call"
    /\ r_result.kind = "Err"

\* C30: for every RetryConfig over u64, the doubling delay * 2 made after
\* each sleep of retry_with_backoff and retry_with_condition does not
\* overflow u64 (the delay doubled is the one just slept for), and after
\* each doubling the stored delay is at most max_delay_ms.
C30_DoublingNeverOverflows ==
    /\ \A j \in Positions(r_trace, "sleep") :
          r_trace[j].arg * 2 < U64Modulus
    /\ (NumSleeps >= 1 /\ r_pc = "loop") => r_delay <= r_cfg.max_delay_ms

====
